---- MODULE Spec2Model ----
(***************************************************************************)
(* Session-managed streaming correlation layer of mcp-tools:               *)
(*   SessionManager / Session    (src/src/http-server-streaming.ts)        *)
(*   StreamingExecutor           (src/src/streaming-executor.ts)           *)
(*   handleSSEStream / handleStreamingToolCall (http-server-streaming.ts)  *)
(*   POST /mcp and DELETE /mcp handlers       (http-server-streaming.ts)  *)
(* Node runs every callback to completion, so one action is one callback   *)
(* or one synchronous call, with everything it calls.                      *)
(***************************************************************************)
EXTENDS Integers, Sequences, FiniteSets, TLC

\* ---------------------------------------------------------------- bounds
MaxSessions == 2      \* sessions ever created (fresh randomUUID ids 1..MaxSessions)
MaxRequests == 2      \* requests ever accepted (fresh randomUUID ids 1..MaxRequests)
MaxCeiling == 2       \* largest maxActiveRequests a createSession config asks for
MaxTime == 2          \* last value of the wall clock
MaxIdle == 1          \* largest maxIdleTimeMs a createSession config asks for
MaxBytes == 2         \* bytes delivered by 'data' events over all child processes
MaxChunkLen == 2      \* largest chunk.length of one 'data' event
MaxOutputLimit == 1   \* largest options.maxOutputSize of an execution
MaxChannels == 1      \* push channels (GET /mcp) ever opened where one channel is followed
MaxExecutions == 1    \* child processes ever spawned
MaxCancels == 1       \* cleanup() skips states where an execution was signalled this often
MaxStreams == 2       \* push channels ever opened by a client that sends GET /mcp again
MaxCommandLen == 2    \* length of the commands enumerated over CommandChars

SessionIds == 1..MaxSessions
RequestIds == 1..MaxRequests
ChannelIds == 1..MaxStreams
ChunkLens == 1..MaxChunkLen
NoSession == 0

\* exit status handed to the 'close' listener; Null when a signal ended the process
Null == -9
ExitCodes == {0, 1, Null}
\* exit status of a child that could not be spawned (negative errno)
SpawnErrno == -2
\* the default of options.maxOutputSize || 10 * 1024 * 1024
DefaultMaxSize == 10 * 1024 * 1024
\* options.maxOutputSize when the caller gave none
NoLimit == -1
\* options.maxOutputSize || 10 * 1024 * 1024
OrDefault(maxOutputSize) ==
  IF maxOutputSize = NoLimit \/ maxOutputSize = 0 THEN DefaultMaxSize ELSE maxOutputSize

VARIABLES
  now,               \* Date.now()
  defaultConfig,     \* SessionManager.defaultConfig
  sessions,          \* SessionManager.sessions (keys)
  nextSession,       \* sessions created so far
  sess,              \* Session objects, by id
  nextRequest,       \* requests accepted so far
  reqs,              \* CorrelatedRequest objects, by requestId
  signals,           \* Session events emitted per request, in order
  activeExecutions,  \* StreamingExecutor.activeExecutions (keys)
  executionResults,  \* StreamingExecutor.executionResults
  exec,              \* per execution: the closure variables of executeStreaming
  proc,              \* per execution: the ChildProcess
  graceTimers,       \* per execution: pending 5000ms timers of cancelExecution
  emitted,           \* per request: progress.type of every 'progress' event, in order
  channels,          \* push channels opened by handleSSEStream
  replies,           \* per request: what its POST /mcp reply stream was written
  httpResponse,      \* the HTTP response the last step sent, with the request it answers
  outcome,           \* what the call made by the last step returned or threw
  fault,             \* the MCPError the last call of MCPErrorHandler returned, with its context
  validation         \* the last call of validateCommand: its argument and its ValidationResult

vars == <<now, defaultConfig, sessions, nextSession, sess, nextRequest, reqs, signals,
          activeExecutions, executionResults, exec, proc, graceTimers,
          emitted, channels, replies, httpResponse, outcome, fault,
          validation>>

sessVars == <<defaultConfig, sessions, nextSession, sess>>
engineVars == <<activeExecutions, executionResults, exec, proc, graceTimers>>

\* ---------------------------------------------------------------- helpers
NoResult == [present |-> FALSE, success |-> FALSE, exitCode |-> 0, writes |-> 0]

SessionConfigs == [maxIdleTimeMs : 1..MaxIdle, maxActiveRequests : 1..MaxCeiling]

NewSession(t, config) ==
  [createdAt |-> t, lastActivity |-> t, activeRequests |-> {},
   requestHistory |-> <<>>, config |-> config]

NoSessionObj == NewSession(0, [maxIdleTimeMs |-> 0, maxActiveRequests |-> 0])

\* CorrelatedRequest: uuid8 is requestId.substring(0, 8)
NoRequest == [sessionId |-> NoSession, aborted |-> FALSE, uuid8 |-> 0]

\* the first 8 characters a randomUUID() can start with
UuidPrefixes == RequestIds

\* closure of one executeStreaming call; stdout and stderr are the lengths of
\* the accumulated strings
NoExec == [started |-> FALSE, timer |-> "none", maxOutputSize |-> NoLimit, maxSize |-> 0,
           stdoutSize |-> 0, stderrSize |-> 0, stdout |-> 0, stderr |-> 0,
           listening |-> FALSE]

\* ChildProcess: state, signals it was sent, in order, and the exit status it
\* handed to 'close' (Null until then, and when a signal ended it)
NoProc == [state |-> "none", sent |-> <<>>, exitCode |-> Null]

\* a push channel: its session, whether the client is connected, what was
\* written, and the functions it has registered on the Session (the same for
\* each of the three events) and on the executor
NoChannel == [session |-> NoSession, open |-> FALSE, log |-> <<>>,
              sessionListeners |-> {}, progressListeners |-> {}]

\* EventEmitter.off(event, fn): removes fn if it is registered
off(listeners, fn) == listeners \ {fn}

\* the call made by a step, with what it returned or threw
Outcome(op, s, res) == [op |-> op, session |-> s, result |-> res]

\* a call that returns nothing (void), or a step that is not a call
NoOutcome == Outcome("none", NoSession, "none")

\* JSON-RPC ids a client may send: strings, numbers, null
JsonIds == {"str:a", "num:1", "num:0", "null"}

\* id || null
OrNull(id) == IF id \in {"num:0", "null"} THEN "null" ELSE id

createSuccessResponse(id) == [body |-> "result", id |-> OrNull(id), code |-> 0]

createErrorResponse(id, code) == [body |-> "error", id |-> OrNull(id), code |-> code]

\* a body that is not a JSON-RPC envelope
Plain(body) == [body |-> body, id |-> "none", code |-> 0]

\* mcpRequest.params of a tools/call: the tool named and the kind of value
\* given as arguments
Params(name, args) == [name |-> name, arguments |-> args]

\* the params of a request that is no tools/call
NoParams == Params("none", "none")

\* one HTTP response: the request it answers (method, id, Mcp-Session-Id sent),
\* the status, the body, the session that served the request and the
\* Mcp-Session-Id header of the response
Response(method, id, h, status, payload, s, header) ==
  [method |-> method, request |-> id, asked |-> h, accept |-> FALSE, params |-> NoParams,
   status |-> status, body |-> payload.body,
   id |-> payload.id, code |-> payload.code, session |-> s, sessionHeader |-> header]

\* the response to a tools/call, with the Accept header (text/event-stream or
\* not) and the params of the call
CallResponse(id, h, acceptsSSE, params, status, payload, s, header) ==
  [Response("tools/call", id, h, status, payload, s, header)
     EXCEPT !.accept = acceptsSSE, !.params = params]

\* a step that answers no HTTP request
NoResponse == Response("none", "none", NoSession, 0, Plain("none"), NoSession, NoSession)

RECURSIVE SumBytes(_)
\* an id field left undefined
Undefined == 0

\* no CorrelatedRequest
NoRequestId == 0

\* no call of the error handler
NoFault == [handler |-> "none", session |-> NoSession, correlatedRequest |-> NoRequestId,
            error |-> [code |-> 0, message |-> "none", correlationId |-> Undefined,
                       sessionId |-> Undefined, requestId |-> Undefined]]

\* { isValid: errors.length === 0, errors }
ValidationResult(errors) == [isValid |-> Len(errors) = 0, errors |-> errors]

\* no call of validateCommand
NoValidation == [command |-> [type |-> "none", chars |-> <<>>], result |-> ValidationResult(<<>>)]

SumBytes(S) == IF S = {} THEN 0
               ELSE LET r == CHOOSE x \in S : TRUE
                    IN exec[r].stdoutSize + exec[r].stderrSize + SumBytes(S \ {r})

TotalBytes == SumBytes(RequestIds)

Created == 1..nextSession          \* Session objects constructed so far
Issued == 1..nextRequest           \* CorrelatedRequest objects accepted so far

\* new SessionManager(config), new StreamingExecutor()
Init ==
  /\ now = 0
  /\ defaultConfig \in SessionConfigs
  /\ sessions = {}
  /\ nextSession = 0
  /\ sess = [s \in SessionIds |-> NoSessionObj]
  /\ nextRequest = 0
  /\ reqs = [r \in RequestIds |-> NoRequest]
  /\ signals = [r \in RequestIds |-> <<>>]
  /\ activeExecutions = {}
  /\ executionResults = [r \in RequestIds |-> NoResult]
  /\ exec = [r \in RequestIds |-> NoExec]
  /\ proc = [r \in RequestIds |-> NoProc]
  /\ graceTimers = [r \in RequestIds |-> 0]
  /\ emitted = [r \in RequestIds |-> <<>>]
  /\ channels = [c \in ChannelIds |-> NoChannel]
  /\ replies = [r \in RequestIds |-> <<>>]
  /\ httpResponse = NoResponse
  /\ outcome = NoOutcome
  /\ fault = NoFault
  /\ validation = NoValidation

\* ---------------------------------------------------------------- push channels
\* variant: a writer that puts the message ahead of what was written
writeSSEMessage_Prepend(ch, msg) ==
  IF ch.open THEN [ch EXCEPT !.log = <<msg>> \o @] ELSE ch

\* writeSSEMessage: nothing is written once reply.raw is destroyed
writeSSEMessage(ch, msg) ==
  IF ch.open THEN [ch EXCEPT !.log = Append(@, msg)] ELSE ch

\* variant: a progressHandler that relays every response
progressHandler_NoFilter(ch, response) == TRUE

\* progressHandler of handleSSEStream: the filter on response.sessionId
progressHandler(ch, response) == response.sessionId = ch.session

\* Session.emit(ev, req): the eventHandler of every channel opened on session s
sessionEmit(chs, s, r, ev) ==
  [c \in ChannelIds |->
     IF chs[c].session = s /\ chs[c].sessionListeners # {}
     THEN writeSSEMessage(chs[c], [sessionId |-> chs[c].session, requestId |-> r, type |-> ev])
     ELSE chs[c]]

\* StreamingExecutor.emit('progress', response): every subscribed progressHandler
progressEmit(chs, sid, r, kind) ==
  LET response == [sessionId |-> sid, requestId |-> r, type |-> kind]
  IN [c \in ChannelIds |->
        IF chs[c].progressListeners # {} /\ progressHandler(chs[c], response)
        THEN writeSSEMessage(chs[c], response)
        ELSE chs[c]]

\* ---------------------------------------------------------------- StreamingExecutor
\* cancelExecution on every id of R: SIGTERM and one 5000ms timer per active execution
cancelSignal(sent) == Append(sent, "SIGTERM")

cancelExecutionProc(R) ==
  [r \in RequestIds |->
     IF r \in R /\ r \in activeExecutions
     THEN [proc[r] EXCEPT !.sent = cancelSignal(@)]
     ELSE proc[r]]

\* variant: a cancelExecution that sets no force-kill timer
cancelExecutionTimers_None(R) == graceTimers

cancelExecutionTimers(R) ==
  [r \in RequestIds |->
     IF r \in R /\ r \in activeExecutions THEN graceTimers[r] + 1 ELSE graceTimers[r]]

\* requests whose abort listener runs when the controllers of R are aborted
AbortListeners(R) == {r \in R : ~reqs[r].aborted /\ exec[r].listening}

\* variant: a Session.cleanup that aborts no controller
abortAll_None(R) == reqs

\* controller.abort() on every request of R
abortAll(R) == [r \in RequestIds |-> IF r \in R THEN [reqs[r] EXCEPT !.aborted = TRUE] ELSE reqs[r]]

\* ---------------------------------------------------------------- Session
\* variant: the ceiling check with > for >=
CapacityReached_OffByOne(s) ==
  Cardinality(sess[s].activeRequests) > sess[s].config.maxActiveRequests

CapacityReached(s) == Cardinality(sess[s].activeRequests) >= sess[s].config.maxActiveRequests

\* variant: an isIdle that looks at the elapsed time only
isIdle_IgnoresActive(s) ==
  (now - sess[s].lastActivity) > sess[s].config.maxIdleTimeMs

\* Session.isIdle
isIdle(s) ==
  IF Cardinality(sess[s].activeRequests) > 0 THEN FALSE
  ELSE (now - sess[s].lastActivity) > sess[s].config.maxIdleTimeMs

\* variant: updateActivity() ahead of the ceiling check
rejected_Touched(s) == [sess EXCEPT ![s].lastActivity = now]

\* the Session objects after createRequest threw: the throw precedes every update
rejected(s) == sess

\* Session.createRequest: throws at the ceiling, else inserts and signals.
\* The randomUUID of a rejected call is dropped with the request object, so the
\* model draws an id for accepted requests only.
createRequestWith(s, uuid8) ==
  /\ s \in Created
  /\ IF CapacityReached(s)
     THEN /\ outcome' = Outcome("createRequest", s, "CapacityExceeded")
          /\ sess' = rejected(s)
          /\ UNCHANGED <<nextRequest, reqs, signals, channels>>
     ELSE /\ nextRequest < MaxRequests
          /\ LET r == nextRequest + 1 IN
               /\ nextRequest' = r
               /\ reqs' = [reqs EXCEPT ![r] = [sessionId |-> s, aborted |-> FALSE,
                                               uuid8 |-> uuid8]]
               /\ sess' = [sess EXCEPT ![s].activeRequests = @ \cup {r},
                                       ![s].lastActivity = now]
               /\ signals' = [signals EXCEPT ![r] = Append(@, "requestCreated")]
               /\ channels' = sessionEmit(channels, s, r, "requestCreated")
               /\ outcome' = Outcome("createRequest", s, "ok")
  /\ httpResponse' = NoResponse
  /\ UNCHANGED <<now, fault, validation, replies, defaultConfig, sessions, nextSession, engineVars, emitted>>

\* variant: a lookup that finds every id
found_Always(active, r) == TRUE

\* const request = this.activeRequests.get(requestId); if (request)
found(active, r) == r \in active

\* variant: a completeRequest that leaves the request in the active map
completeDelete_Kept(active, r) == active

\* this.activeRequests.delete(requestId) of completeRequest
completeDelete(active, r) == active \ {r}

\* createRequest where the UUIDs drawn differ in their first 8 characters
createRequest(s) == createRequestWith(s, nextRequest + 1)

\* createRequest with any UUID randomUUID() can return
createRequestAnyUUID(s) == \E uuid8 \in UuidPrefixes : createRequestWith(s, uuid8)

\* Session.completeRequest
completeRequest(s, r) ==
  /\ s \in Created
  /\ r \in RequestIds
  /\ IF found(sess[s].activeRequests, r)
     THEN /\ sess' = [sess EXCEPT ![s].activeRequests = completeDelete(@, r),
                                  ![s].requestHistory = Append(@, r),
                                  ![s].lastActivity = now]
          /\ signals' = [signals EXCEPT ![r] = Append(@, "requestCompleted")]
          /\ channels' = sessionEmit(channels, s, r, "requestCompleted")
          /\ outcome' = NoOutcome
     ELSE /\ outcome' = NoOutcome
          /\ UNCHANGED <<sess, signals, channels>>
  /\ httpResponse' = NoResponse
  /\ UNCHANGED <<now, fault, validation, replies, defaultConfig, sessions, nextSession, nextRequest, reqs, engineVars, emitted>>

\* variant: a cancelRequest that never deletes the id
cancelDelete_Kept(active, r) == active

\* variant: a cancelRequest that keeps the id while the engine lists the execution
cancelDelete_Deferred(active, r) ==
  IF r \in activeExecutions THEN active ELSE active \ {r}

\* this.activeRequests.delete(requestId) of cancelRequest
cancelDelete(active, r) == active \ {r}

\* Session.cancelRequest: abort (runs the engine's abort listener), then remove
cancelRequest(s, r) ==
  /\ s \in Created
  /\ r \in RequestIds
  /\ IF found(sess[s].activeRequests, r)
     THEN /\ proc' = cancelExecutionProc(AbortListeners({r}))
          /\ graceTimers' = cancelExecutionTimers(AbortListeners({r}))
          /\ reqs' = abortAll({r})
          /\ sess' = [sess EXCEPT ![s].activeRequests = cancelDelete(@, r),
                                  ![s].lastActivity = now]
          /\ signals' = [signals EXCEPT ![r] = Append(@, "requestCancelled")]
          /\ channels' = sessionEmit(channels, s, r, "requestCancelled")
          /\ outcome' = NoOutcome
     ELSE /\ outcome' = NoOutcome
          /\ UNCHANGED <<sess, signals, channels, reqs, proc, graceTimers>>
  /\ httpResponse' = NoResponse
  /\ UNCHANGED <<now, fault, validation, replies, defaultConfig, sessions, nextSession, nextRequest, activeExecutions,
                 executionResults, exec, emitted>>

\* Session.cleanup: abort every active request, clear the map
Session_cleanup(s) ==
  /\ s \in Created
  /\ proc' = cancelExecutionProc(AbortListeners(sess[s].activeRequests))
  /\ graceTimers' = cancelExecutionTimers(AbortListeners(sess[s].activeRequests))
  /\ reqs' = abortAll(sess[s].activeRequests)
  /\ sess' = [sess EXCEPT ![s].activeRequests = {}]
  /\ outcome' = NoOutcome
  /\ httpResponse' = NoResponse
  /\ UNCHANGED <<now, fault, validation, replies, defaultConfig, sessions, nextSession, nextRequest, signals, activeExecutions,
                 executionResults, exec, emitted, channels>>

\* ---------------------------------------------------------------- SessionManager
\* SessionManager.createSession(config): { ...this.defaultConfig, ...config }
newSession(config) ==
  /\ nextSession < MaxSessions
  /\ LET s == nextSession + 1 IN
       /\ nextSession' = s
       /\ sess' = [sess EXCEPT ![s] = NewSession(now, config)]
       /\ sessions' = sessions \cup {s}
       /\ outcome' = Outcome("createSession", s, "ok")
  /\ httpResponse' = NoResponse
  /\ UNCHANGED <<now, fault, validation, replies, defaultConfig, nextRequest, reqs, signals, engineVars, emitted, channels>>

\* createSession(): what every caller of the repository does
createSession == newSession(defaultConfig)

\* createSession(config) with an override
createSessionConfig == \E config \in SessionConfigs : newSession(config)

\* SessionManager.deleteSession on every id of D (each: session.cleanup, then delete)
deleteAll(D) ==
  LET R == UNION {sess[s].activeRequests : s \in D} IN
    /\ proc' = cancelExecutionProc(AbortListeners(R))
    /\ graceTimers' = cancelExecutionTimers(AbortListeners(R))
    /\ reqs' = abortAll(R)
    /\ sess' = [s \in SessionIds |->
                  IF s \in D THEN [sess[s] EXCEPT !.activeRequests = {}] ELSE sess[s]]
    /\ sessions' = sessions \ D

deleteSession(s) ==
  /\ s \in Created
  /\ IF s \in sessions
     THEN /\ deleteAll({s})
          /\ outcome' = Outcome("deleteSession", s, "true")
     ELSE /\ outcome' = Outcome("deleteSession", s, "false")
          /\ UNCHANGED <<sessions, sess, reqs, proc, graceTimers>>
  /\ httpResponse' = NoResponse
  /\ UNCHANGED <<now, fault, validation, replies, defaultConfig, nextSession, nextRequest, signals, activeExecutions,
                 executionResults, exec, emitted, channels>>

\* variant: a sweep that takes every registered session for expired
expiredSessions_All == sessions

\* the ids collected by the first loop of cleanupExpiredSessions
expiredSessions == {s \in sessions : isIdle(s)}

\* SessionManager.cleanupExpiredSessions, when it finds something to delete:
\* deleteSession on each id, then emit('sessionsExpired', expiredSessions)
cleanupExpiredSessions ==
    /\ expiredSessions # {}
    /\ deleteAll(expiredSessions)
    /\ outcome' = Outcome("cleanupExpiredSessions", NoSession, "sessionsExpired")
    /\ httpResponse' = NoResponse
    /\ UNCHANGED <<now, fault, validation, replies, defaultConfig, nextSession, nextRequest, signals, activeExecutions,
                   executionResults, exec, emitted, channels>>

Tick ==
  /\ now < MaxTime
  /\ now' = now + 1
  /\ UNCHANGED <<sessVars, nextRequest, reqs, signals, engineVars, emitted, channels, replies,
                 fault, validation>>
  /\ httpResponse' = NoResponse
  /\ outcome' = NoOutcome

\* ---------------------------------------------------------------- StreamingExecutor
IsError(kind) == kind \in {"error:timeout", "error:size", "error:spawn"}
IsTerminal(kind) == kind = "complete" \/ IsError(kind)

clearTimeout(t) == IF t = "armed" THEN "cleared" ELSE t

\* exitCode || -1
OrMinusOne(code) == IF code = 0 \/ code = Null THEN -1 ELSE code

closeResult(code, old) ==
  [present |-> TRUE, success |-> (code = 0), exitCode |-> OrMinusOne(code),
   writes |-> old.writes + 1]

errorResult(old) ==
  [present |-> TRUE, success |-> FALSE, exitCode |-> -1, writes |-> old.writes + 1]

\* the body of executeStreaming up to the registration of the listeners
\* (spawn returned a ChildProcess)
spawned(r, timeout, maxOutputSize) ==
  /\ Cardinality({x \in RequestIds : proc[x].state # "none"}) < MaxExecutions
  /\ activeExecutions' = activeExecutions \cup {r}
  /\ proc' = [proc EXCEPT ![r] = [state |-> "running", sent |-> <<>>, exitCode |-> Null]]
  /\ exec' = [exec EXCEPT ![r] = [started |-> TRUE,
                                  timer |-> IF timeout THEN "armed" ELSE "none",
                                  maxOutputSize |-> maxOutputSize,
                                  maxSize |-> OrDefault(maxOutputSize),
                                  stdoutSize |-> 0, stderrSize |-> 0,
                                  stdout |-> 0, stderr |-> 0,
                                  listening |-> TRUE]]

\* spawn threw: the catch block
spawnThrew(r) ==
  /\ exec' = [exec EXCEPT ![r].started = TRUE]
  /\ UNCHANGED <<activeExecutions, proc>>

\* StreamingExecutor.executeStreaming(correlatedRequest, command, args, options)
\* with options.maxOutputSize one of limits
executeStreamingWith(r, limits) ==
  /\ r \in Issued
  /\ ~exec[r].started
  /\ \/ \E timeout \in BOOLEAN, maxOutputSize \in limits :
          /\ spawned(r, timeout, maxOutputSize)
          /\ UNCHANGED <<emitted, channels>>
     \/ /\ spawnThrew(r)
        /\ emitted' = [emitted EXCEPT ![r] = Append(@, "error:spawn")]
        /\ channels' = progressEmit(channels, reqs[r].sessionId, r, "error:spawn")
  /\ httpResponse' = NoResponse
  /\ UNCHANGED <<now, fault, validation, replies, sessVars, nextRequest, reqs, signals, executionResults,
                 graceTimers>>
  /\ outcome' = NoOutcome

\* executeStreaming with no maxOutputSize or a positive one
executeStreaming(r) == executeStreamingWith(r, {NoLimit} \cup (1..MaxOutputLimit))

\* executeStreaming with no maxOutputSize or any number of bytes, zero included
executeStreamingAnyLimit(r) == executeStreamingWith(r, {NoLimit} \cup (0..MaxOutputLimit))

\* the 'data' listeners of stdout and stderr
overLimit(size, maxSize) == size > maxSize

onData(r, stream, len) ==
  LET size == (IF stream = "stdout" THEN exec[r].stdoutSize ELSE exec[r].stderrSize) + len
      kind == IF overLimit(size, exec[r].maxSize) THEN "error:size" ELSE stream
  IN
  /\ proc[r].state = "running"
  /\ TotalBytes + len <= MaxBytes
  /\ IF overLimit(size, exec[r].maxSize)
     THEN /\ proc' = cancelExecutionProc({r})
          /\ graceTimers' = cancelExecutionTimers({r})
          /\ exec' = IF stream = "stdout"
                     THEN [exec EXCEPT ![r].stdoutSize = size]
                     ELSE [exec EXCEPT ![r].stderrSize = size]
     ELSE /\ exec' = IF stream = "stdout"
                     THEN [exec EXCEPT ![r].stdoutSize = size, ![r].stdout = @ + len]
                     ELSE [exec EXCEPT ![r].stderrSize = size, ![r].stderr = @ + len]
          /\ UNCHANGED <<proc, graceTimers>>
  /\ emitted' = [emitted EXCEPT ![r] = Append(@, kind)]
  /\ channels' = progressEmit(channels, reqs[r].sessionId, r, kind)
  /\ httpResponse' = NoResponse
  /\ UNCHANGED <<now, fault, validation, replies, sessVars, nextRequest, reqs, signals, activeExecutions,
                 executionResults>>
  /\ outcome' = NoOutcome

stdoutData(r) == \E len \in ChunkLens : onData(r, "stdout", len)

stderrData(r) == \E len \in ChunkLens : onData(r, "stderr", len)

\* the 'close' listener
onClose(r) ==
  /\ proc[r].state \in {"running", "errored"}
  /\ \E code \in (IF proc[r].state = "errored" THEN {SpawnErrno} ELSE ExitCodes) :
       /\ proc' = [proc EXCEPT ![r].state = "closed", ![r].exitCode = code]
       /\ exec' = [exec EXCEPT ![r].timer = clearTimeout(@)]
       /\ activeExecutions' = activeExecutions \ {r}
       /\ executionResults' = [executionResults EXCEPT ![r] = closeResult(code, @)]
       /\ emitted' = [emitted EXCEPT ![r] = Append(@, "complete")]
       /\ channels' = progressEmit(channels, reqs[r].sessionId, r, "complete")
  /\ httpResponse' = NoResponse
  /\ UNCHANGED <<now, fault, validation, replies, sessVars, nextRequest, reqs, signals, graceTimers>>
  /\ outcome' = NoOutcome

\* the 'error' listener (the child could not be spawned)
onError(r) ==
  /\ proc[r].state = "running"
  /\ exec[r].stdoutSize = 0 /\ exec[r].stderrSize = 0
  /\ proc' = [proc EXCEPT ![r].state = "errored"]
  /\ exec' = [exec EXCEPT ![r].timer = clearTimeout(@)]
  /\ activeExecutions' = activeExecutions \ {r}
  /\ executionResults' = [executionResults EXCEPT ![r] = errorResult(@)]
  /\ emitted' = [emitted EXCEPT ![r] = Append(@, "error:spawn")]
  /\ channels' = progressEmit(channels, reqs[r].sessionId, r, "error:spawn")
  /\ httpResponse' = NoResponse
  /\ UNCHANGED <<now, fault, validation, replies, sessVars, nextRequest, reqs, signals, graceTimers>>
  /\ outcome' = NoOutcome

\* the callback of the options.timeout timer
onTimeout(r) ==
  /\ exec[r].timer = "armed"
  /\ exec' = [exec EXCEPT ![r].timer = "fired"]
  /\ proc' = cancelExecutionProc({r})
  /\ graceTimers' = cancelExecutionTimers({r})
  /\ emitted' = [emitted EXCEPT ![r] = Append(@, "error:timeout")]
  /\ channels' = progressEmit(channels, reqs[r].sessionId, r, "error:timeout")
  /\ httpResponse' = NoResponse
  /\ UNCHANGED <<now, fault, validation, replies, sessVars, nextRequest, reqs, signals, activeExecutions,
                 executionResults>>
  /\ outcome' = NoOutcome

\* variant: a timer callback that kills without looking at activeExecutions
forceKill_Always(r) == TRUE

\* variant: a cancelExecution without the force-kill timer
forceKill_Never(r) == FALSE

\* the callback of one 5000ms timer of cancelExecution
forceKill(r) == r \in activeExecutions

onGrace(r) ==
  /\ graceTimers[r] > 0
  /\ graceTimers' = [graceTimers EXCEPT ![r] = @ - 1]
  /\ IF forceKill(r)
     THEN /\ proc' = [proc EXCEPT ![r].sent = Append(@, "SIGKILL")]
          /\ activeExecutions' = activeExecutions \ {r}
     ELSE UNCHANGED <<proc, activeExecutions>>
  /\ httpResponse' = NoResponse
  /\ UNCHANGED <<now, fault, validation, replies, sessVars, nextRequest, reqs, signals, executionResults, exec,
                 emitted, channels>>
  /\ outcome' = NoOutcome

\* StreamingExecutor.cleanup
Executor_cleanup ==
  /\ activeExecutions # {} \/ \E r \in RequestIds : executionResults[r].present
  /\ \A r \in activeExecutions : Len(proc[r].sent) < MaxCancels
  /\ proc' = cancelExecutionProc(activeExecutions)
  /\ graceTimers' = cancelExecutionTimers(activeExecutions)
  /\ executionResults' = [r \in RequestIds |-> [executionResults[r] EXCEPT !.present = FALSE]]
  /\ httpResponse' = NoResponse
  /\ UNCHANGED <<now, fault, validation, replies, sessVars, nextRequest, reqs, signals, activeExecutions, exec,
                 emitted, channels>>
  /\ outcome' = Outcome("cleanup", NoSession, "ok")

\* ---------------------------------------------------------------- dispatcher
\* GET /mcp with a session header: the Session is given three arrow functions
\* that call eventHandler, the executor is given progressHandler
sseStream(s, limit) ==
  /\ s \in sessions
  /\ \E c \in 1..limit :
       /\ channels[c].session = NoSession
       /\ \A d \in ChannelIds : d < c => channels[d].session # NoSession
       /\ channels' = [channels EXCEPT ![c] =
             [session |-> s, open |-> TRUE,
              log |-> <<[sessionId |-> s, requestId |-> 0, type |-> "connected"]>>,
              sessionListeners |-> {"(req) => eventHandler"},
              progressListeners |-> {"progressHandler"}]]
  /\ httpResponse' = NoResponse
  /\ UNCHANGED <<now, fault, validation, replies, sessVars, nextRequest, reqs, signals, engineVars, emitted>>
  /\ outcome' = NoOutcome

\* GET /mcp, in the specifications that follow one push channel
handleSSEStream(s) == sseStream(s, MaxChannels)

\* GET /mcp, sent again by a client that has a stream open or had one
handleSSEStreamAgain(s) == sseStream(s, MaxStreams)

\* request.raw 'close': the client of channel c disconnected; eventHandler and
\* progressHandler are handed to off()
onDisconnect(c) ==
  /\ channels[c].open
  /\ channels' = [channels EXCEPT
                     ![c].open = FALSE,
                     ![c].sessionListeners = off(@, "eventHandler"),
                     ![c].progressListeners = off(@, "progressHandler")]
  /\ httpResponse' = NoResponse
  /\ UNCHANGED <<now, fault, validation, replies, sessVars, nextRequest, reqs, signals, engineVars, emitted>>
  /\ outcome' = NoOutcome

\* getAvailableTools: echo and get_system_info run in the server, new_ws (as
\* pr_violations, code_review, deploy_approval) and morning_workflow through
\* executeBash; echo and new_ws declare a required property
ToolNames == {"echo", "get_system_info", "new_ws", "morning_workflow"}

Required(name) == name \in {"echo", "new_ws"}

InProcess(name) == name \in {"echo", "get_system_info"}

\* the values sent as params.arguments: an object with every declared property
\* well-formed, the object {}, the array [], a string (or nothing at all)
ArgKinds == {"full", "empty", "array", "string"}

\* the params a client can send: a declared tool or one that does not exist
ParamsSent == {Params(name, args) : name \in ToolNames \cup {"unknown_tool"}, args \in ArgKinds}

\* the arguments are an instance of the inputSchema the tool declares
\* (type: 'object', required)
conformsToSchema(params) ==
  /\ params.name \in ToolNames
  /\ params.arguments \in {"full", "empty"}
  /\ Required(params.name) => params.arguments = "full"

\* validateToolArguments(toolName, args): typeof args must be 'object', which
\* an array is too; then the checks of the tool's fields, of which an absent
\* required one fails and an absent description passes
validateToolArguments(params) ==
  IF params.arguments = "string" THEN FALSE
  ELSE IF params.name \notin ToolNames THEN FALSE
  ELSE IF Required(params.name) THEN params.arguments = "full"
  ELSE TRUE

\* handleStreamingToolCall(mcpRequest, reply, session), on the Session objects
\* base that session resolution left; header is what reply.header was given.
\* A rejected call answers 400; an accepted one writes tool_call_started to the
\* reply stream, where no listener is registered for it; a throw of
\* createRequest leaves the handler and Fastify answers 500.
streamingToolCall(h, s, base, id, params, header) ==
  IF ~validateToolArguments(params)
  THEN /\ httpResponse' = CallResponse(id, h, TRUE, params, 400, createErrorResponse(id, -32602), s, header)
       /\ sess' = base
       /\ outcome' = NoOutcome
       /\ UNCHANGED <<nextRequest, reqs, signals, channels, replies, emitted, engineVars>>
  ELSE IF s \in sessions /\ CapacityReached(s)
  THEN /\ httpResponse' = CallResponse(id, h, TRUE, params, 500, Plain("Internal Server Error"), s, header)
       /\ outcome' = Outcome("tools/call", s, "CapacityExceeded")
       /\ sess' = rejected(s)
       /\ UNCHANGED <<nextRequest, reqs, signals, channels, replies, emitted, engineVars>>
  ELSE /\ nextRequest < MaxRequests
       /\ LET r == nextRequest + 1
              chs == sessionEmit(channels, s, r, "requestCreated")
          IN
            /\ nextRequest' = r
            /\ reqs' = [reqs EXCEPT ![r] = [sessionId |-> s, aborted |-> FALSE, uuid8 |-> r]]
            /\ sess' = [base EXCEPT ![s].activeRequests = @ \cup {r},
                                    ![s].lastActivity = now]
            /\ signals' = [signals EXCEPT ![r] = Append(@, "requestCreated")]
            /\ replies' = [replies EXCEPT ![r] = Append(@, "tool_call_started")]
            /\ httpResponse' = CallResponse(id, h, TRUE, params, 200, Plain("event-stream"), s, s)
            /\ outcome' = Outcome("tools/call", s, "started")
            /\ IF InProcess(params.name)
               THEN \* echo, get_system_info: executeToolStreaming emits the result itself
                    /\ exec' = [exec EXCEPT ![r].started = TRUE]
                    /\ emitted' = [emitted EXCEPT ![r] = Append(@, "complete")]
                    /\ channels' = progressEmit(chs, s, r, "complete")
                    /\ UNCHANGED <<activeExecutions, proc>>
               ELSE \* the tools run through globalToolHelper.executeBash
                    \/ /\ spawned(r, FALSE, NoLimit)
                       /\ channels' = chs
                       /\ UNCHANGED emitted
                    \/ /\ spawnThrew(r)
                       /\ emitted' = [emitted EXCEPT ![r] = Append(@, "error:spawn")]
                       /\ channels' = progressEmit(chs, s, r, "error:spawn")
            /\ UNCHANGED <<executionResults, graceTimers>>

\* the id of the tools/call envelopes of the specifications that do not look at ids
SomeId == "num:1"

\* POST /mcp tools/call with Accept: text/event-stream, arguments valid, on
\* the session the Mcp-Session-Id header names
handleStreamingToolCall(s) ==
  /\ s \in sessions
  /\ \E name \in {"echo", "new_ws"} :
       streamingToolCall(s, s, sess, SomeId, Params(name, "full"), NoSession)
  /\ UNCHANGED <<now, fault, validation, defaultConfig, sessions, nextSession>>

\* variant: an executeToolDirect that answers for every tool
executeToolDirect_All(name) == "ok"

\* executeToolDirect: echo and get_system_info only
executeToolDirect(name) == IF InProcess(name) THEN "ok" ELSE "throws"

\* handleDirectToolCall(mcpRequest, session): the envelope it returns
handleDirectToolCall(id, params) ==
  IF ~validateToolArguments(params) THEN createErrorResponse(id, -32602)
  ELSE IF executeToolDirect(params.name) = "ok" THEN createSuccessResponse(id)
  ELSE createErrorResponse(id, -32603)

\* a Mcp-Session-Id no session was ever given
UnknownId == MaxSessions + 1

Methods == {"initialize", "tools/list", "resources/list", "prompts/list",
            "tools/call", "ping", "other"}

\* variant: a handleSessionManagement that never looks the id up
resolved_AlwaysNew(h) == nextSession + 1

\* variant: a handleSessionManagement that registers a session under the id
\* the client supplied whenever that id was once given out
resolved_Revive(h) == IF h \in Created THEN h ELSE nextSession + 1

\* the session handleSessionManagement returns for header h: the registered
\* one, else a new one
resolved(h) == IF h \in sessions THEN h ELSE nextSession + 1

\* the Session objects after handleSessionManagement
resolvedSess(h) ==
  IF h \in sessions THEN sess
  ELSE [sess EXCEPT ![resolved(h)] = NewSession(now, defaultConfig)]

\* what handleSessionManagement gives reply.header: the id of a session it created
resolvedHeader(h) == IF h \in sessions THEN NoSession ELSE resolved(h)

\* the envelopes sent with a method: the Accept header and params are read by
\* tools/call only; the id goes through the same createSuccessResponse and
\* createErrorResponse for every method, and is varied for tools/call
IdsOf(method) == IF method = "tools/call" THEN JsonIds ELSE {SomeId}

AcceptsOf(method) == IF method = "tools/call" THEN BOOLEAN ELSE {FALSE}

ToolsOf(method) ==
  IF method = "tools/call"
  THEN {Params("echo", "full"), Params("new_ws", "full"), Params("unknown_tool", "full")}
  ELSE {NoParams}

\* the Mcp-Session-Id headers a client can send: none, the id of a session it
\* was given, or an id of its own
HeadersSent == {NoSession, UnknownId} \cup Created

\* POST /mcp with a well-formed envelope: session resolution, then the switch
\* on mcpRequest.method
postMcp(h, method, id, acceptsSSE, params) ==
  LET s == resolved(h)
      header == resolvedHeader(h)
  IN
  /\ h \in sessions \/ nextSession < MaxSessions
  /\ sessions' = sessions \cup {s}
  /\ nextSession' = IF h \in sessions THEN nextSession ELSE s
  /\ IF method = "tools/call" /\ acceptsSSE
     THEN streamingToolCall(h, s, resolvedSess(h), id, params, header)
     ELSE /\ sess' = resolvedSess(h)
          /\ httpResponse' =
               CASE method = "initialize" ->
                      Response(method, id, h, 200, createSuccessResponse(id), s, s)
                 [] method \in {"tools/list", "resources/list", "prompts/list"} ->
                      Response(method, id, h, 200, createSuccessResponse(id), s, header)
                 [] method = "tools/call" ->
                      CallResponse(id, h, FALSE, params, 200,
                                   handleDirectToolCall(id, params), s, header)
                 [] method = "ping" ->
                      Response(method, id, h, 200, createSuccessResponse(id), s, header)
                 [] OTHER ->
                      Response(method, id, h, 200, createErrorResponse(id, -32601), s, header)
          /\ outcome' = NoOutcome
          /\ UNCHANGED <<nextRequest, reqs, signals, channels, replies, emitted, engineVars>>
  /\ UNCHANGED <<now, fault, validation, defaultConfig>>

\* POST /mcp with a body that is no JSON-RPC 2.0 request: answered before
\* session resolution
postInvalid ==
  /\ httpResponse' = Response("invalid", "none", NoSession, 200, createErrorResponse("null", -32600),
                          NoSession, NoSession)
  /\ outcome' = NoOutcome
  /\ UNCHANGED <<now, fault, validation, sessVars, nextRequest, reqs, signals, engineVars, emitted, channels,
                 replies>>

\* DELETE /mcp
deleteMcp(h) ==
  /\ IF h \in sessions
     THEN /\ deleteAll({h})
          /\ outcome' = Outcome("deleteSession", h, "true")
          /\ httpResponse' = Response("DELETE", "none", h, 200, Plain("Session terminated"), h, NoSession)
     ELSE /\ outcome' = NoOutcome
          /\ httpResponse' = Response("DELETE", "none", h, 404, Plain("Session not found"),
                                  NoSession, NoSession)
          /\ UNCHANGED <<sessions, sess, reqs, proc, graceTimers>>
  /\ UNCHANGED <<now, fault, validation, replies, defaultConfig, nextSession, nextRequest, signals, activeExecutions,
                 executionResults, exec, emitted, channels>>

\* ---------------------------------------------------------------- MCPErrorHandler
\* the errors handed to the handlers: a message containing one of the phrases
\* the handlers look for, an errno code, an HTTP status code
ErrorMessages == {"session not found", "maximum active requests", "session expired",
                  "timeout", "cancelled", "aborted", "connection closed", "correlation",
                  "other"}

Errors ==
  {[message |-> m, code |-> "none", statusCode |-> 0] : m \in ErrorMessages}
  \cup {[message |-> "other", code |-> c, statusCode |-> 0] : c \in {"ENOENT", "EACCES"}}
  \cup {[message |-> "other", code |-> "none", statusCode |-> n] : n \in {400, 401, 403, 429, 500}}

\* error.message?.includes(phrase)
includes(error, phrase) == error.message = phrase

\* `${this.id}-${requestId.substring(0, 8)}` of Session.createRequest
correlationId(r) == reqs[r].sessionId * (MaxRequests + 1) + reqs[r].uuid8

\* ErrorContext: the Session and the CorrelatedRequest it holds, if any
ErrorContext(s, r) == [session |-> s, correlatedRequest |-> r]

createBaseError(error, context) ==
  [code |-> -32603,
   message |-> error.message,
   correlationId |-> IF context.correlatedRequest = NoRequestId THEN Undefined
                     ELSE correlationId(context.correlatedRequest),
   sessionId |-> IF context.session = NoSession THEN Undefined ELSE context.session,
   requestId |-> IF context.correlatedRequest = NoRequestId THEN Undefined
                 ELSE context.correlatedRequest]

\* { ...baseError, code, message }
withCode(baseError, code, message) == [baseError EXCEPT !.code = code, !.message = message]

handleSessionError(error, context) ==
  LET baseError == createBaseError(error, context) IN
    IF includes(error, "session not found")
    THEN withCode(baseError, -32000, "Session not found or expired")
    ELSE IF includes(error, "maximum active requests")
    THEN withCode(baseError, -32002, "Session has reached maximum active requests")
    ELSE IF includes(error, "session expired")
    THEN withCode(baseError, -32001, "Session has expired")
    ELSE withCode(baseError, -32603, "Session management error")

handleToolError(error, context) ==
  LET baseError == createBaseError(error, context) IN
    IF includes(error, "timeout")
    THEN withCode(baseError, -32011, "Tool execution timed out")
    ELSE IF includes(error, "cancelled") \/ includes(error, "aborted")
    THEN withCode(baseError, -32012, "Tool execution cancelled")
    ELSE IF error.code = "ENOENT"
    THEN withCode(baseError, -32010, "Tool not found or not executable")
    ELSE IF error.code = "EACCES"
    THEN withCode(baseError, -32030, "Permission denied executing tool")
    ELSE withCode(baseError, -32010, "Tool execution failed")

handleValidationError(error, context) ==
  withCode(createBaseError(error, context), -32020, "Request validation failed")

handleStreamingError(error, context) ==
  LET baseError == createBaseError(error, context) IN
    IF includes(error, "connection closed")
    THEN withCode(baseError, -32050, "Streaming connection closed unexpectedly")
    ELSE IF includes(error, "correlation")
    THEN withCode(baseError, -32060, "Request correlation failed")
    ELSE withCode(baseError, -32050, "Streaming operation failed")

handleHTTPError(error, context) ==
  LET baseError == createBaseError(error, context) IN
    IF error.statusCode # 0
    THEN CASE error.statusCode = 400 -> withCode(baseError, -32600, "Bad request format")
           [] error.statusCode = 401 -> withCode(baseError, -32030, "Authentication required")
           [] error.statusCode = 403 -> withCode(baseError, -32030, "Access denied")
           [] error.statusCode = 429 -> withCode(baseError, -32040, "Rate limit exceeded")
           [] OTHER -> withCode(baseError, -32603, "HTTP error")
    ELSE withCode(baseError, -32603, "HTTP request processing failed")

handleParseError(error, context) ==
  withCode(createBaseError(error, context), -32700, "Invalid JSON-RPC request format")

Handlers == {"handleSessionError", "handleToolError", "handleValidationError",
             "handleStreamingError", "handleHTTPError", "handleParseError"}

\* one call of a handler of globalErrorHandler, with a context that holds the
\* Session, a CorrelatedRequest of it, both or neither
handleError(handler, error, s, r) ==
  LET context == ErrorContext(s, r) IN
  /\ s \in {NoSession} \cup Created
  /\ r \in {NoRequestId} \cup Issued
  /\ (s # NoSession /\ r # NoRequestId) => reqs[r].sessionId = s
  /\ fault' = [handler |-> handler, session |-> s, correlatedRequest |-> r,
               error |-> CASE handler = "handleSessionError" -> handleSessionError(error, context)
                           [] handler = "handleToolError" -> handleToolError(error, context)
                           [] handler = "handleValidationError" -> handleValidationError(error, context)
                           [] handler = "handleStreamingError" -> handleStreamingError(error, context)
                           [] handler = "handleHTTPError" -> handleHTTPError(error, context)
                           [] OTHER -> handleParseError(error, context)]
  /\ httpResponse' = NoResponse
  /\ outcome' = NoOutcome
  /\ UNCHANGED <<now, sessVars, nextRequest, reqs, signals, engineVars, emitted, channels,
                 replies, validation>>

\* ---------------------------------------------------------------- input validation
\* a string as the sequence of its characters
Str(chars) == [type |-> "string", chars |-> chars]

\* the characters of the commands that are enumerated ("backquote" stands for
\* the character U+0060)
CommandChars == {"a", " ", ";", "&", "|", "backquote", "$", "(", ")", "{", "}"}

\* the commands of the validateCommand tests
SafeCommands ==
  {Str(<<"p","r","_","v","i","o","l","a","t","i","o","n","s">>),
   Str(<<"c","o","d","e","_","r","e","v","i","e","w">>),
   Str(<<"m","o","r","n","i","n","g","_","w","o","r","k","f","l","o","w">>),
   Str(<<"d","e","p","l","o","y","_","a","p","p","r","o","v","a","l">>),
   Str(<<"s","i","m","p","l","e"," ","c","o","m","m","a","n","d">>)}

DangerousCommands ==
  {Str(<<"r","m"," ","-","r","f"," ","/">>),
   Str(<<"c","o","m","m","a","n","d",";"," ","r","m"," ","f","i","l","e">>),
   Str(<<"c","m","d"," ","&","&"," ","m","a","l","i","c","i","o","u","s">>),
   Str(<<"e","c","h","o"," ","backquote","w","h","o","a","m","i","backquote">>),
   Str(<<"t","e","s","t","$","(","d","a","n","g","e","r","o","u","s",")">>),
   Str(<<"c","m","d","{","d","a","n","g","e","r","}">>)}

\* what a client can put in the command property: a string, or no string
CommandsSent ==
  SafeCommands \cup DangerousCommands
  \cup {Str(chars) : chars \in UNION {[1..n -> CommandChars] : n \in 0..MaxCommandLen}}
  \cup {[type |-> t, chars |-> <<>>] : t \in {"null", "undefined", "number"}}

\* const dangerousPatterns of validateCommand, in the order of the array
dangerousPatterns ==
  << <<";">>, <<"&","&">>, <<"|","|">>, <<"|">>, <<"backquote">>, <<"$">>, <<"(">>, <<")">>,
     <<"{">>, <<"}">> >>

\* command.includes(pattern)
commandIncludes(chars, pattern) ==
  \E i \in 1..Len(chars) :
    /\ i + Len(pattern) - 1 <= Len(chars)
    /\ SubSeq(chars, i, i + Len(pattern) - 1) = pattern

\* command.trim().length === 0
trimmedEmpty(chars) == \A i \in 1..Len(chars) : chars[i] = " "

validateCommand(command) ==
  IF command.type \in {"null", "undefined"} \/ (command.type = "string" /\ command.chars = <<>>)
  THEN ValidationResult(<< <<"required">> >>)
  ELSE IF command.type # "string"
  THEN ValidationResult(<< <<"must be a string">> >>)
  ELSE LET matched(pattern) == commandIncludes(command.chars, pattern)
       IN ValidationResult(
            (IF trimmedEmpty(command.chars) THEN << <<"cannot be empty">> >> ELSE <<>>)
            \o SelectSeq(dangerousPatterns, matched))

\* one call of validateCommand
validateCommandCall ==
  /\ \E command \in CommandsSent :
       validation' = [command |-> command, result |-> validateCommand(command)]
  /\ httpResponse' = NoResponse
  /\ outcome' = NoOutcome
  /\ UNCHANGED <<now, fault, sessVars, nextRequest, reqs, signals, engineVars, emitted,
                 channels, replies>>

\* ---------------------------------------------------------------- specifications
\* validateCommand called with every command of CommandsSent
ValidationNext == validateCommandCall

ValidationSpec == Init /\ [][ValidationNext]_vars


\* the handlers of the error handler called with the sessions and requests of
\* a running server
FaultNext ==
  \/ createSession
  \/ \E s \in SessionIds : createRequest(s)
  \/ \E handler \in Handlers, error \in Errors, s \in {NoSession} \cup SessionIds,
        r \in {NoRequestId} \cup RequestIds : handleError(handler, error, s, r)

FaultSpec == Init /\ [][FaultNext]_vars

\* the Session and SessionManager operations, under any caller
SessionNext ==
  \/ Tick
  \/ createSessionConfig
  \/ \E s \in SessionIds : deleteSession(s)
  \/ cleanupExpiredSessions
  \/ \E s \in SessionIds : createRequest(s)
  \/ \E s \in SessionIds, r \in RequestIds : completeRequest(s, r)
  \/ \E s \in SessionIds, r \in RequestIds : cancelRequest(s, r)
  \/ \E s \in SessionIds : Session_cleanup(s)

SessionSpec == Init /\ [][SessionNext]_vars

\* one executeStreaming run on a request of a session, with any options, from
\* spawn to the last timer
ExecutionNext ==
  \/ createSession
  \/ \E s \in SessionIds : createRequest(s)
  \/ \E s \in SessionIds, r \in RequestIds : cancelRequest(s, r)
  \/ \E r \in RequestIds : executeStreaming(r)
  \/ \E r \in RequestIds : stdoutData(r)
  \/ \E r \in RequestIds : stderrData(r)
  \/ \E r \in RequestIds : onClose(r)
  \/ \E r \in RequestIds : onError(r)
  \/ \E r \in RequestIds : onTimeout(r)
  \/ \E r \in RequestIds : onGrace(r)

ExecutionSpec == Init /\ [][ExecutionNext]_vars

\* the whole StreamingExecutor: the runs and cleanup()
EngineNext ==
  \/ ExecutionNext
  \/ Executor_cleanup

EngineSpec == Init /\ [][EngineNext]_vars

\* the HTTP server: what createStreamableHTTPServer wires together
ServerNext ==
  \/ createSession
  \/ \E s \in SessionIds : deleteSession(s)
  \/ \E s \in SessionIds : handleSSEStream(s)
  \/ \E c \in ChannelIds : onDisconnect(c)
  \/ \E s \in SessionIds : handleStreamingToolCall(s)
  \/ \E r \in RequestIds : stdoutData(r)
  \/ \E r \in RequestIds : stderrData(r)
  \/ \E r \in RequestIds : onClose(r)
  \/ \E r \in RequestIds : onError(r)
  \/ \E r \in RequestIds : onGrace(r)

ServerSpec == Init /\ [][ServerNext]_vars

\* the dispatcher: every POST /mcp and DELETE /mcp a client can send, as the
\* clock advances
DispatchNext ==
  \/ Tick
  \/ \E h \in HeadersSent, method \in Methods :
       \E id \in IdsOf(method), acceptsSSE \in AcceptsOf(method), params \in ToolsOf(method) :
         postMcp(h, method, id, acceptsSSE, params)
  \/ postInvalid
  \/ \E h \in HeadersSent : deleteMcp(h)

DispatchSpec == Init /\ [][DispatchNext]_vars

\* tools/call with every params a client can send, on both paths, while
\* sessions are deleted and child processes close
CallNext ==
  \/ \E h \in HeadersSent, acceptsSSE \in BOOLEAN, params \in ParamsSent :
       postMcp(h, "tools/call", SomeId, acceptsSSE, params)
  \/ \E h \in HeadersSent : deleteMcp(h)
  \/ \E r \in RequestIds : onClose(r)

CallSpec == Init /\ [][CallNext]_vars

\* the requests of sessions with the UUIDs randomUUID() can return
CorrelationNext ==
  \/ createSession
  \/ \E s \in SessionIds : createRequestAnyUUID(s)
  \/ \E s \in SessionIds, r \in RequestIds : completeRequest(s, r)
  \/ \E s \in SessionIds, r \in RequestIds : cancelRequest(s, r)
  \/ \E s \in SessionIds : deleteSession(s)

CorrelationSpec == Init /\ [][CorrelationNext]_vars

\* a client that opens the push channel of its session more than once, calls
\* tools and disconnects
StreamNext ==
  \/ createSession
  \/ \E s \in SessionIds : handleSSEStreamAgain(s)
  \/ \E c \in ChannelIds : onDisconnect(c)
  \/ \E s \in SessionIds : handleStreamingToolCall(s)
  \/ \E r \in RequestIds : onClose(r)

StreamSpec == Init /\ [][StreamNext]_vars

\* the server as time passes: sessions, streaming calls, the children closing,
\* and the sweep of the SessionManager's interval timer
SweepNext ==
  \/ Tick
  \/ createSession
  \/ \E s \in SessionIds : handleStreamingToolCall(s)
  \/ \E r \in RequestIds : onClose(r)
  \/ cleanupExpiredSessions

SweepSpec == Init /\ [][SweepNext]_vars

\* time passes and the interval timer of the sweep fires
FairSweepSpec == SweepSpec /\ WF_vars(Tick) /\ WF_vars(cleanupExpiredSessions)

\* timers are fired by the event loop; nothing obliges a process to close or a
\* client to call
FairExecutionSpec ==
  ExecutionSpec /\ \A r \in RequestIds : WF_vars(onTimeout(r)) /\ WF_vars(onGrace(r))

FairServerSpec ==
  ServerSpec /\ \A r \in RequestIds : WF_vars(onGrace(r))

\* cleanup() called at any moment of the runs of an executor: children are
\* spawned, close or fail, and timers fire
CleanupNext ==
  \/ createSession
  \/ \E s \in SessionIds : createRequest(s)
  \/ \E r \in RequestIds : executeStreaming(r)
  \/ \E r \in RequestIds : onClose(r)
  \/ \E r \in RequestIds : onError(r)
  \/ \E r \in RequestIds : onTimeout(r)
  \/ \E r \in RequestIds : onGrace(r)
  \/ Executor_cleanup

CleanupSpec == Init /\ [][CleanupNext]_vars

FairCleanupSpec ==
  CleanupSpec /\ \A r \in RequestIds : WF_vars(onTimeout(r)) /\ WF_vars(onGrace(r))

\* ---------------------------------------------------------------- properties
Last(q) == q[Len(q)]

Has(q, x) == \E i \in 1..Len(q) : q[i] = x

ActiveCount(s) == Cardinality(sess[s].activeRequests)

SessionOf(r) == reqs[r].sessionId

InActiveSet(r) == r \in Issued /\ r \in sess[SessionOf(r)].activeRequests

\* C1: no session ever holds more active requests than its maxActiveRequests
C1_ActiveWithinCeiling ==
  \A s \in SessionIds : ActiveCount(s) <= sess[s].config.maxActiveRequests

C1_Witness ==
  \E s \in Created :
    /\ sess[s].config.maxActiveRequests = MaxCeiling
    /\ ActiveCount(s) = MaxCeiling
    /\ outcome = Outcome("createRequest", s, "CapacityExceeded")

\* C2: a createRequest call on a session that is at its ceiling throws the
\* capacity error and changes no session, no request and no signal log, and
\* writes nothing to any channel
C2_RejectedAtCeiling ==
  [][\A s \in SessionIds :
       (/\ outcome'.op = "createRequest"
        /\ outcome'.session = s
        /\ ActiveCount(s) = sess[s].config.maxActiveRequests)
       => (/\ outcome'.result = "CapacityExceeded"
           /\ sess' = sess
           /\ sessions' = sessions
           /\ reqs' = reqs
           /\ nextRequest' = nextRequest
           /\ signals' = signals
           /\ channels' = channels)]_vars

C2_Witness ==
  \E s \in Created, t \in Created :
    /\ s # t
    /\ outcome = Outcome("createRequest", s, "CapacityExceeded")
    /\ sess[s].activeRequests # {}
    /\ sess[t].activeRequests # {}

\* C3: in the notifications of one request a terminal one (complete or error)
\* is the last one: one terminal at most, nothing after it
C3_TerminalIsLast ==
  \A r \in RequestIds :
    \A i \in 1..Len(emitted[r]) : IsTerminal(emitted[r][i]) => i = Len(emitted[r])

\* C4: the error notification of an output-size breach is the last notification
\* of its request
C4_NothingAfterSizeError ==
  \A r \in RequestIds :
    \A i \in 1..Len(emitted[r]) : emitted[r][i] = "error:size" => i = Len(emitted[r])

\* C5: everything written to a push channel carries the sessionId of the
\* session the channel was opened for
C5_ChannelIsolation ==
  \A c \in ChannelIds :
    \A i \in 1..Len(channels[c].log) : channels[c].log[i].sessionId = channels[c].session

C5_Witness ==
  \E c \in ChannelIds, r \in RequestIds, q \in RequestIds :
    /\ channels[c].open
    /\ SessionOf(r) = channels[c].session
    /\ SessionOf(q) \notin {NoSession, channels[c].session}
    /\ Has(emitted[q], "stdout")
    /\ Len(channels[c].log) >= 3
    /\ Last(channels[c].log).type = "complete"
    /\ Last(channels[c].log).requestId = r

\* C6: a request whose terminal notification was emitted eventually leaves the
\* active set of its session
C6_RetiredOnCompletion ==
  \A r \in RequestIds :
    (emitted[r] # <<>> /\ IsTerminal(Last(emitted[r]))) ~> ~InActiveSet(r)

\* C7: a request that cancelRequest was applied to is not in the active set,
\* whatever the engine still lists
C7_CancelRemovesAtOnce ==
  \A r \in RequestIds :
    (signals[r] # <<>> /\ Last(signals[r]) = "requestCancelled") => ~InActiveSet(r)

C7_Witness ==
  \E r \in Issued :
    /\ Last(signals[r]) = "requestCancelled"
    /\ ~InActiveSet(r)
    /\ r \in activeExecutions
    /\ proc[r].state = "running"
    /\ proc[r].sent = <<"SIGTERM">>

\* C8: a request whose execution the engine ended for a timeout or an
\* output-size breach is not in the active set of its session
C8_ImplicitCancelRemoves ==
  \A r \in RequestIds :
    (Has(emitted[r], "error:timeout") \/ Has(emitted[r], "error:size")) => ~InActiveSet(r)

\* C9: once the timeout of an execution has fired, the child was sent SIGTERM
\* and the timeout error was emitted, and the execution leaves activeExecutions
C9_Timeout ==
  /\ [](\A r \in RequestIds :
          exec[r].timer = "fired" =>
            Has(proc[r].sent, "SIGTERM") /\ Has(emitted[r], "error:timeout"))
  /\ \A r \in RequestIds : (exec[r].timer = "fired") ~> (r \notin activeExecutions)

C9_Witness ==
  \E r \in RequestIds :
    /\ exec[r].timer = "fired"
    /\ proc[r].state = "closed"
    /\ r \notin activeExecutions
    /\ Last(emitted[r]) = "complete"

\* C10: SIGKILL comes after a SIGTERM, only from a grace timer that finds the
\* execution still active, and never once the process has closed
C10_GracefulThenForceful ==
  /\ [](\A r \in RequestIds :
          \A i \in 1..Len(proc[r].sent) :
            proc[r].sent[i] = "SIGKILL" => i > 1 /\ proc[r].sent[1] = "SIGTERM")
  /\ [][\A r \in RequestIds :
          /\ (proc'[r].sent # proc[r].sent /\ Last(proc'[r].sent) = "SIGKILL")
               => (/\ graceTimers[r] > 0
                   /\ graceTimers'[r] = graceTimers[r] - 1
                   /\ r \in activeExecutions
                   /\ r \notin activeExecutions')
          /\ proc[r].state = "closed" => proc'[r].sent = proc[r].sent]_vars

C10_Witness ==
  \E r \in RequestIds :
    /\ proc[r].sent = <<"SIGTERM", "SIGKILL">>
    /\ r \notin activeExecutions

\* C11: a child that exits by itself with status s leaves a stored result with
\* exitCode s and success = (s = 0); status 0 is stored as 0
C11_ExitStatusReported ==
  \A r \in RequestIds :
    (/\ proc[r].state = "closed"
     /\ proc[r].sent = <<>>
     /\ proc[r].exitCode \in {0, 1}
     /\ executionResults[r].present)
    => (/\ executionResults[r].exitCode = proc[r].exitCode
        /\ executionResults[r].success = (proc[r].exitCode = 0))

\* C12: once the terminal notification of an accepted streaming tools/call has
\* been emitted, it is eventually written to the reply stream opened for the
\* call, or to a push channel of its session
C12_TerminalReachesCallChannel ==
  \A r \in RequestIds :
    (replies[r] # <<>> /\ emitted[r] # <<>> /\ IsTerminal(Last(emitted[r])))
    ~> (\/ \E i \in 1..Len(replies[r]) : IsTerminal(replies[r][i])
        \/ \E c \in ChannelIds : \E i \in 1..Len(channels[c].log) :
              /\ channels[c].log[i].requestId = r
              /\ IsTerminal(channels[c].log[i].type))

\* time since the last activity of session s
IdleTime(s) == now - sess[s].lastActivity

\* C13: isIdle is false for a session with at least one active request,
\* whatever the time since its last activity
C13_BusyNeverIdle ==
  \A s \in Created : ActiveCount(s) >= 1 => ~isIdle(s)

C13_Witness ==
  \E s \in sessions :
    /\ ActiveCount(s) >= 1
    /\ IdleTime(s) > sess[s].config.maxIdleTimeMs
    /\ ~isIdle(s)

\* C14: isIdle is true exactly when the session has no active request and the
\* time since its last activity is at least maxIdleTimeMs (equality included)
C14_IdleFromTimeout ==
  \A s \in Created :
    isIdle(s) <=> (ActiveCount(s) = 0 /\ IdleTime(s) >= sess[s].config.maxIdleTimeMs)

C16_SessionResolution ==
  [][httpResponse'.method \in Methods =>
       LET h == httpResponse'.asked
           s == httpResponse'.session
       IN /\ \A t \in SessionIds \ {s} : sess'[t] = sess[t]
          /\ IF h \in sessions
             THEN /\ s = h
                  /\ sessions' = sessions
                  /\ nextSession' = nextSession
                  /\ sess'[s].createdAt = sess[s].createdAt
                  /\ sess[s].activeRequests \subseteq sess'[s].activeRequests
                  /\ sess'[s].activeRequests \ sess[s].activeRequests \subseteq {nextRequest + 1}
             ELSE /\ s \in SessionIds \ Created
                  /\ sessions' = sessions \cup {s}
                  /\ nextSession' = nextSession + 1
                  /\ sess'[s].createdAt = now]_vars

C16_Witness ==
  \E s \in sessions :
    /\ httpResponse.method \in Methods
    /\ httpResponse.asked = s
    /\ httpResponse.session = s
    /\ sess[s].createdAt < now
    /\ sess[s].activeRequests # {}
    /\ nextSession = MaxSessions

\* C17: the response to a well-formed POST /mcp carries the id of the session
\* that served it in Mcp-Session-Id, for a new and for a reused session and
\* for every method
C17_SessionIdEchoed ==
  httpResponse.method \in Methods => httpResponse.sessionHeader = httpResponse.session

\* C18: a ping leaves the registered sessions, every Session object (active
\* requests, history, last activity) and the requests as they were, with or
\* without a Mcp-Session-Id
C18_PingHasNoEffect ==
  [][httpResponse'.method = "ping" =>
       /\ sessions' = sessions
       /\ sess' = sess
       /\ reqs' = reqs
       /\ nextRequest' = nextRequest]_vars

\* C19: the envelope a non-streaming tools/call is answered with, a result or
\* an error, has the id of the request, for a string, a number (0 included)
\* and null
C19_DirectCallIdMatches ==
  (/\ httpResponse.method = "tools/call"
   /\ httpResponse.status = 200
   /\ httpResponse.body \in {"result", "error"})
  => httpResponse.id = httpResponse.request

\* C20: deleteSession on a registered session aborts every one of its active
\* requests, empties its active set, removes it from the registry and returns
\* true; on an id that is not registered (deleted before, say) it returns
\* false and changes nothing
C20_DeleteSession ==
  [][\A s \in SessionIds :
       (outcome'.op = "deleteSession" /\ outcome'.session = s) =>
         IF s \in sessions
         THEN /\ outcome'.result = "true"
              /\ \A r \in sess[s].activeRequests : reqs'[r].aborted
              /\ sess'[s].activeRequests = {}
              /\ sessions' = sessions \ {s}
              /\ \A t \in SessionIds \ {s} : sess'[t] = sess[t]
         ELSE /\ outcome'.result = "false"
              /\ sessions' = sessions
              /\ sess' = sess
              /\ reqs' = reqs
              /\ signals' = signals
              /\ proc' = proc
              /\ channels' = channels]_vars

C20_Witness ==
  \E s \in Created, t \in sessions :
    /\ outcome = Outcome("deleteSession", s, "false")
    /\ s \notin sessions
    /\ sess[s].activeRequests = {}
    /\ \E r \in Issued : SessionOf(r) = s /\ reqs[r].aborted /\ signals[r] = <<"requestCreated">>
    /\ \E r \in Issued : SessionOf(r) = t /\ ~reqs[r].aborted /\ InActiveSet(r)

\* C21: a streaming tools/call whose arguments are no instance of the schema
\* the tool declares (an unknown tool and non-object arguments included) is
\* answered with the validation error, and creates no request and starts no
\* execution
C21_InvalidCallRejected ==
  [][(/\ httpResponse'.method = "tools/call"
      /\ httpResponse'.accept
      /\ ~conformsToSchema(httpResponse'.params))
     => (/\ httpResponse'.body = "error"
         /\ httpResponse'.code = -32602
         /\ nextRequest' = nextRequest
         /\ reqs' = reqs
         /\ \A s \in SessionIds : sess'[s].activeRequests = sess[s].activeRequests
         /\ activeExecutions' = activeExecutions
         /\ proc' = proc)]_vars

\* C22: a tools/call on the direct path creates no request and starts no
\* execution; a tool that runs through a child process is answered with the
\* execution error, and a result is returned for in-process tools only
C22_DirectPathInProcessOnly ==
  [][(httpResponse'.method = "tools/call" /\ ~httpResponse'.accept)
     => (/\ nextRequest' = nextRequest
         /\ reqs' = reqs
         /\ \A s \in SessionIds : sess'[s].activeRequests = sess[s].activeRequests
         /\ activeExecutions' = activeExecutions
         /\ proc' = proc
         /\ exec' = exec
         /\ httpResponse'.body \in {"result", "error"}
         /\ httpResponse'.body = "result" => httpResponse'.params.name \in {"echo", "get_system_info"}
         /\ httpResponse'.params \in {Params("new_ws", "full"), Params("morning_workflow", "empty")}
              => (httpResponse'.body = "error" /\ httpResponse'.code = -32603))]_vars

C22_Witness ==
  /\ httpResponse.method = "tools/call"
  /\ ~httpResponse.accept
  /\ httpResponse.params = Params("new_ws", "full")
  /\ httpResponse.code = -32603
  /\ \E r \in Issued : proc[r].state = "running" /\ r \in activeExecutions

\* C23: a push channel whose client has disconnected has no listener left,
\* neither on its Session nor on the executor
C23_ListenersRemoved ==
  \A c \in ChannelIds :
    (channels[c].session # NoSession /\ ~channels[c].open)
    => (channels[c].sessionListeners = {} /\ channels[c].progressListeners = {})

\* C24: whenever the cancellation token of a request has been triggered and a
\* subprocess is running for that request, the subprocess has been sent SIGTERM
C24_AbortReachesProcess ==
  \A r \in RequestIds :
    (reqs[r].aborted /\ proc[r].state = "running") => Has(proc[r].sent, "SIGTERM")

\* C25: an execution started by a streaming tools/call that is in
\* activeExecutions eventually leaves it, whether or not the process exits or
\* anybody cancels
C25_ExecutionTimeBounded ==
  \A r \in RequestIds : (r \in activeExecutions) ~> (r \notin activeExecutions)

\* C26: cleanup() sends SIGTERM to every execution that is active when it is
\* called and sets its force-kill timer, and an active execution with a pending
\* force-kill timer eventually leaves activeExecutions
C26_CleanupTerminatesAll ==
  /\ [][Executor_cleanup =>
          \A r \in activeExecutions :
            /\ proc'[r].sent = Append(proc[r].sent, "SIGTERM")
            /\ graceTimers'[r] > 0]_vars
  /\ \A r \in RequestIds :
       (r \in activeExecutions /\ graceTimers[r] > 0) ~> (r \notin activeExecutions)

\* cleanup() has just signalled a running execution
C26_Witness ==
  /\ outcome.op = "cleanup"
  /\ \E r \in activeExecutions :
       /\ proc[r].state = "running"
       /\ Last(proc[r].sent) = "SIGTERM"
       /\ graceTimers[r] > 0

\* C27: a request of the history is not active, was not cancelled or cleaned
\* up, and is listed once; and a request enters a history only by a
\* completeRequest applied while it was active
C27_HistoryOnlyCompleted ==
  /\ [](\A s \in SessionIds, r \in RequestIds :
          LET h == sess[s].requestHistory IN
            Has(h, r) =>
              /\ r \notin sess[s].activeRequests
              /\ ~reqs[r].aborted
              /\ Cardinality({i \in 1..Len(h) : h[i] = r}) = 1)
  /\ [][\A s \in SessionIds, r \in RequestIds :
          (Has(sess'[s].requestHistory, r) /\ ~Has(sess[s].requestHistory, r))
          => /\ r \in sess[s].activeRequests
             /\ signals'[r] = Append(signals[r], "requestCompleted")]_vars

\* one request completed and in the history, another one cancelled
C27_Witness ==
  \E s \in SessionIds, r, x \in RequestIds :
    /\ Has(sess[s].requestHistory, r)
    /\ SessionOf(x) = s
    /\ reqs[x].aborted
    /\ x \notin sess[s].activeRequests

\* the kinds of the progress notifications of request r written to channel c,
\* in the order of writing
IsProgress(kind) == kind \in {"stdout", "stderr"} \/ IsTerminal(kind)

ProgressOf(c, r) ==
  LET own(m) == m.requestId = r /\ IsProgress(m.type)
      sel == SelectSeq(channels[c].log, own)
  IN [i \in 1..Len(sel) |-> sel[i].type]

\* a can be obtained from b by leaving elements out
RECURSIVE IsSubSeq(_, _)
IsSubSeq(a, b) ==
  IF a = <<>> THEN TRUE
  ELSE IF b = <<>> THEN FALSE
  ELSE IF Head(a) = Head(b) THEN IsSubSeq(Tail(a), Tail(b))
  ELSE IsSubSeq(a, Tail(b))

\* C28: on every push channel the progress notifications of one request appear
\* in the order the executor emitted them
C28_PerRequestOrder ==
  \A c \in ChannelIds, r \in RequestIds : IsSubSeq(ProgressOf(c, r), emitted[r])

\* output of r, then the result of another request, then the completion of r,
\* all on one channel
C28_Witness ==
  \E c \in ChannelIds, r, q \in RequestIds :
    LET log == channels[c].log IN
      /\ r # q
      /\ \E i, j, k \in 1..Len(log) :
           /\ i < j /\ j < k
           /\ log[i].requestId = r /\ log[i].type \in {"stdout", "stderr"}
           /\ log[j].requestId = q /\ log[j].type = "complete"
           /\ log[k].requestId = r /\ log[k].type = "complete"

\* C29: the fault a handler returns carries the correlationId, the requestId
\* and the sessionId of the CorrelatedRequest of its context, and the id of the
\* Session of its context
C29_FaultCarriesIds ==
  fault.handler # "none" =>
    /\ fault.correlatedRequest # NoRequestId =>
         /\ fault.error.correlationId = correlationId(fault.correlatedRequest)
         /\ fault.error.requestId = fault.correlatedRequest
         /\ fault.error.sessionId = reqs[fault.correlatedRequest].sessionId
    /\ fault.session # NoSession => fault.error.sessionId = fault.session

\* C30: the result of a run is stored at most once, and it is stored once the
\* terminal notification of the run was emitted
C30_ResultStoredOnce ==
  \A r \in RequestIds :
    /\ executionResults[r].writes <= 1
    /\ (\E i \in 1..Len(emitted[r]) : IsTerminal(emitted[r][i])) => executionResults[r].present

\* C31: completeRequest and cancelRequest with an id that is not in the active
\* set of the session change neither the active set, the history nor the last
\* activity, abort no controller, signal no process and emit nothing
C31_UnknownIdIsNoOp ==
  [][\A s \in SessionIds, r \in RequestIds :
       ((completeRequest(s, r) \/ cancelRequest(s, r)) /\ r \notin sess[s].activeRequests)
       => UNCHANGED <<sess, reqs, signals, channels, proc, graceTimers>>]_vars

\* the ids the calls can miss: one completed, one cancelled, one removed by a
\* deleteSession, or one never issued
C31_Witness ==
  \E s \in Created, r \in RequestIds :
    /\ r \notin sess[s].activeRequests
    /\ \/ Has(sess[s].requestHistory, r)
       \/ r \in Issued /\ Last(signals[r]) = "requestCancelled"
       \/ r \in Issued /\ SessionOf(r) = s /\ s \notin sessions /\ reqs[r].aborted
    /\ \E x \in RequestIds : x \notin Issued

\* C32: no two connected push channels belong to one session, and no progress
\* notification of a request is found on two channels
C32_OneChannelPerSession ==
  \A c, d \in ChannelIds :
    (c # d /\ channels[c].session # NoSession /\ channels[c].session = channels[d].session)
    => /\ ~(channels[c].open /\ channels[d].open)
       /\ \A r \in RequestIds : ProgressOf(c, r) = <<>> \/ ProgressOf(d, r) = <<>>

\* C33: two distinct requests created in one session have distinct
\* correlationIds
C33_CorrelationIdsDistinct ==
  \A r, q \in Issued :
    (r # q /\ SessionOf(r) = SessionOf(q)) => correlationId(r) # correlationId(q)

\* C34: validateCommand rejects, with at least one error, every dangerous
\* command of its tests and every command that contains a dangerous pattern,
\* and accepts with no error the safe commands of its tests
C34_CommandValidation ==
  LET command == validation.command
      result == validation.result
  IN
    /\ (command \in DangerousCommands
        \/ \E i \in 1..Len(dangerousPatterns) : commandIncludes(command.chars, dangerousPatterns[i]))
       => (~result.isValid /\ Len(result.errors) >= 1)
    /\ command \in SafeCommands => (result.isValid /\ result.errors = <<>>)

\* C35: a streaming tools/call with valid arguments on a registered session
\* that is at its ceiling is answered with the error envelope of the
\* capacity-exceeded fault (SESSION_LIMIT_EXCEEDED, -32002), writes no started
\* event, starts no execution and leaves every active set as it was
C35_CeilingAnswered ==
  [][\A h \in SessionIds :
       (/\ httpResponse'.method = "tools/call"
        /\ httpResponse'.accept
        /\ httpResponse'.asked = h
        /\ h \in sessions
        /\ validateToolArguments(httpResponse'.params)
        /\ ActiveCount(h) >= sess[h].config.maxActiveRequests)
       => (/\ httpResponse'.body = "error"
           /\ httpResponse'.code = -32002
           /\ replies' = replies
           /\ nextRequest' = nextRequest
           /\ activeExecutions' = activeExecutions
           /\ proc' = proc
           /\ \A s \in SessionIds : sess'[s].activeRequests = sess[s].activeRequests)]_vars

\* every request accepted on session s has had its terminal notification
Done(s) ==
  \A r \in Issued :
    SessionOf(r) = s => \E i \in 1..Len(emitted[r]) : IsTerminal(emitted[r][i])

\* C36: a registered session whose invocations have all reached their terminal
\* notification, last used at a time t that leaves the clock room to pass its
\* idle timeout, is eventually deleted, unless it is called again
C36_FinishedSessionSwept ==
  \A s \in SessionIds, t \in 0..MaxTime :
    (/\ s \in sessions
     /\ Done(s)
     /\ sess[s].lastActivity = t
     /\ t + sess[s].config.maxIdleTimeMs < MaxTime)
    ~> (s \notin sessions \/ sess[s].lastActivity # t \/ ~Done(s))

\* C37: from the return of cleanup() on, no result is cached for a request
\* whose execution had been started before the call
C37_CleanupClearsForGood ==
  \A r \in RequestIds :
    []((outcome.op = "cleanup" /\ exec[r].started) => [](~executionResults[r].present))

\* C38: the Session events of a request are requestCreated, once, followed by
\* at most one requestCompleted or requestCancelled; requestCreated is emitted
\* in the step that puts the request into an active set and in no other; an id
\* no accepted request has carries no event
C38_LifecycleOrder ==
  /\ [](\A r \in RequestIds :
          /\ signals[r] \in {<<>>, <<"requestCreated">>,
                             <<"requestCreated", "requestCompleted">>,
                             <<"requestCreated", "requestCancelled">>}
          /\ r \notin Issued => signals[r] = <<>>)
  /\ [][\A r \in RequestIds :
          (\E s \in SessionIds : r \in sess'[s].activeRequests /\ r \notin sess[s].activeRequests)
          <=> (signals[r] = <<>> /\ signals'[r] = <<"requestCreated">>)]_vars

\* one request completed, another cancelled, and a call rejected at the ceiling
C38_Witness ==
  /\ outcome.result = "CapacityExceeded"
  /\ \E r, q \in Issued :
       /\ signals[r] = <<"requestCreated", "requestCompleted">>
       /\ signals[q] \in {<<"requestCreated", "requestCancelled">>, <<"requestCreated">>}

\* ---------------------------------------------------------------- session registry
\* the registry under POST /mcp, DELETE /mcp and the sweep of the interval timer
RegistryNext ==
  \/ Tick
  \/ \E h \in HeadersSent, method \in {"initialize", "ping"} :
       postMcp(h, method, SomeId, FALSE, NoParams)
  \/ \E h \in HeadersSent : deleteMcp(h)
  \/ cleanupExpiredSessions

RegistrySpec == Init /\ [][RegistryNext]_vars

\* the ids of sessions that were registered and are deleted
Deleted == Created \ sessions

\* C39: a session id that was deleted, by DELETE /mcp or by the sweep, is never
\* registered again (getSession of it stays empty), and a POST /mcp that
\* supplies it is served by a session created in that step under another id
C39_DeletedIdStaysDeleted ==
  [][\A s \in Deleted :
       /\ s \notin sessions'
       /\ (httpResponse'.asked = s /\ httpResponse'.method \in {"initialize", "ping"})
            => /\ httpResponse'.session \in sessions' \ Created
               /\ httpResponse'.session # s
               /\ httpResponse'.sessionHeader = httpResponse'.session]_vars

\* a POST /mcp with the id of a deleted session was answered, once after a
\* DELETE and once after a sweep (the deleted id is no longer registered)
C39_Witness ==
  /\ httpResponse.method = "ping"
  /\ httpResponse.asked \in Deleted
  /\ httpResponse.session \in sessions
  /\ httpResponse.session # httpResponse.asked
\* ---------------------------------------------------------------- output limit
\* one executeStreaming run with any options.maxOutputSize, and the chunks its
\* child writes
OutputNext ==
  \/ createSession
  \/ \E s \in SessionIds : createRequest(s)
  \/ \E r \in RequestIds : executeStreamingAnyLimit(r)
  \/ \E r \in RequestIds : stdoutData(r)
  \/ \E r \in RequestIds : stderrData(r)
  \/ \E r \in RequestIds : onClose(r)

OutputSpec == Init /\ [][OutputNext]_vars

\* the maxOutputSize an execution runs under: the option, or the default when
\* the caller gave none
givenLimit(r) ==
  IF exec[r].maxOutputSize = NoLimit THEN DefaultMaxSize ELSE exec[r].maxOutputSize

\* C40: in every state of an execution the accumulated stdout and the
\* accumulated stderr are each at most maxOutputSize long, and a chunk that
\* takes a stream's running total above the limit is neither appended nor
\* emitted as a progress notification of that stream
C40_OutputWithinLimit ==
  /\ [](\A r \in RequestIds :
          proc[r].state # "none"
          => exec[r].stdout <= givenLimit(r) /\ exec[r].stderr <= givenLimit(r))
  /\ [][\A r \in RequestIds :
          /\ (exec'[r].stdoutSize # exec[r].stdoutSize /\ exec'[r].stdoutSize > givenLimit(r))
               => /\ exec'[r].stdout = exec[r].stdout
                  /\ emitted'[r] = Append(emitted[r], "error:size")
          /\ (exec'[r].stderrSize # exec[r].stderrSize /\ exec'[r].stderrSize > givenLimit(r))
               => /\ exec'[r].stderr = exec[r].stderr
                  /\ emitted'[r] = Append(emitted[r], "error:size")]_vars
====
